---- MODULE Spec2Model ----
(***************************************************************************)
(* ServerSocket.py: a TCP listener that starts, per accepted connection, a *)
(* Reader thread (read) and a Writer thread (write).                       *)
(*                                                                         *)
(* Text is a sequence of one-character strings.  Received bytes are the    *)
(* same one-character strings for ASCII bytes and the names "xC3", "xA9",  *)
(* "xFF" for the non-ASCII bytes 0xC3, 0xA9, 0xFF; the character U+00E9    *)
(* (bytes C3 A9 in UTF-8) is written "U+00E9".                             *)
(***************************************************************************)
EXTENDS Integers, Sequences, FiniteSets, TLC

(***************************************************************************)
(* Bounds of the model.                                                    *)
(***************************************************************************)
\* Newline-terminated lines in a stream drawn for the Reader on its own.
MaxLines == 2
\* recv calls that return data, per stream, for the Reader on its own.
MaxRecvs == 3

(***************************************************************************)
(* Program constants.                                                      *)
(***************************************************************************)
\* conn.recv(1024)
RecvSize == 1024
\* line[:100] in the invalid-JSON log
WarnLogLimit == 100
\* Mutant: the generic-message log cut like the invalid-JSON log.
MsgLogLimitAsWarn == WarnLogLimit
\* line[:200] in the generic-message log
MsgLogLimit == 200

(***************************************************************************)
(* State.  The server: peers are the addresses of the peers that connect,  *)
(* in the order they are accepted; lpc is the accept loop's position,      *)
(* nconn the number of connections accepted, llog what the accept loop has *)
(* printed, conn the state of each connection handle, reader and writer    *)
(* the two threads of each connection, ndata the data chunks received,     *)
(* nfault the socket and thread calls that have failed.  The Reader on its *)
(* own: B is the byte stream the peer sends, pos the bytes received, nrecv *)
(* the recv calls that returned data, rd the Reader.                       *)
(***************************************************************************)
VARIABLES peers, lpc, nconn, llog, conn, reader, writer, ndata, nfault, B, pos, nrecv, rd

serverVars == <<peers, lpc, nconn, llog, conn, reader, writer, ndata, nfault>>

readVars == <<B, pos, nrecv, rd>>

vars == <<peers, lpc, nconn, llog, conn, reader, writer, ndata, nfault, B, pos, nrecv, rd>>

Min(a, b) == IF a < b THEN a ELSE b

Rep(c, n) == [i \in 1..n |-> c]

(***************************************************************************)
(* Python's exception classes, as far as the except clauses tell them      *)
(* apart: each class and its base.  socket.timeout is a subclass of        *)
(* OSError.                                                                *)
(***************************************************************************)
ExcBase(cls) ==
    CASE cls = "timeout" -> "OSError"
      [] cls = "ConnectionResetError" -> "OSError"
      [] cls = "BrokenPipeError" -> "OSError"
      [] cls = "OSError" -> "Exception"
      [] cls = "JSONDecodeError" -> "ValueError"
      [] cls = "ValueError" -> "Exception"
      [] cls = "AttributeError" -> "Exception"
      [] cls = "RuntimeError" -> "Exception"
      [] cls = "Exception" -> "BaseException"
      [] OTHER -> "object"

RECURSIVE IsInstance(_, _)
IsInstance(exc, cls) ==
    IF exc = cls THEN TRUE
    ELSE IF exc \in {"BaseException", "object"} THEN FALSE
    ELSE IsInstance(ExcBase(exc), cls)

\* The action of the first except clause, in source order, that matches exc;
\* "propagate" when none does.
RECURSIVE FirstMatch(_, _)
FirstMatch(clauses, exc) ==
    IF clauses = <<>> THEN "propagate"
    ELSE IF \E cls \in Head(clauses).classes : IsInstance(exc, cls)
         THEN Head(clauses).do
         ELSE FirstMatch(Tail(clauses), exc)

(***************************************************************************)
(* bytes.decode('utf-8', errors='ignore')                                  *)
(***************************************************************************)
Lead2 == {"xC3"}
Continuation == {"xA9"}
InvalidByte == {"xFF"}

\* The character of a two-byte sequence.
Char2(lead, cont) == IF lead = "xC3" /\ cont = "xA9" THEN "U+00E9" ELSE "U+FFFD"

\* What the byte at place i contributes to the decoded text.  Every
\* multi-byte sequence of this alphabet has two bytes, so a lead byte always
\* starts a sequence: followed by a continuation byte it gives one character,
\* and otherwise (invalid continuation byte, or unexpected end of data) it is
\* dropped; a continuation byte right after a lead byte belongs to that
\* character, and anywhere else is an invalid start byte and dropped.
DecodeAt(bytes, i) ==
    IF bytes[i] \in Lead2
    THEN IF i < Len(bytes) /\ bytes[i + 1] \in Continuation
         THEN Char2(bytes[i], bytes[i + 1])
         ELSE "dropped"
    ELSE IF bytes[i] \in Continuation \cup InvalidByte
         THEN "dropped"
         ELSE bytes[i]

Kept(c) == c # "dropped"

decode(bytes) == SelectSeq([i \in 1..Len(bytes) |-> DecodeAt(bytes, i)], Kept)

(***************************************************************************)
(* str.strip(), str.split('\n', 1), slicing                                *)
(***************************************************************************)
Whitespace == {" ", "\t", "\r", "\n"}

NonWhitespace(s) == \E i \in 1..Len(s) : s[i] \notin Whitespace

strip(s) ==
    IF ~NonWhitespace(s) THEN <<>>
    ELSE LET first == CHOOSE i \in 1..Len(s) :
                         /\ s[i] \notin Whitespace
                         /\ \A j \in 1..(i - 1) : s[j] \in Whitespace
             last == CHOOSE i \in 1..Len(s) :
                         /\ s[i] \notin Whitespace
                         /\ \A j \in (i + 1)..Len(s) : s[j] \in Whitespace
         IN SubSeq(s, first, last)

\* Mutant: "if line:" in place of "if line.strip():".
StripTruthyNoStrip(line) == line # <<>>

\* if line.strip(): (line 41)
StripTruthy(line) == strip(line) # <<>>

HasNewline(buffer) == \E i \in 1..Len(buffer) : buffer[i] = "\n"

FirstNewline(buffer) ==
    CHOOSE i \in 1..Len(buffer) :
        /\ buffer[i] = "\n"
        /\ \A j \in 1..(i - 1) : buffer[j] # "\n"

\* line, buffer = buffer.split('\n', 1)
split_nl(buffer) ==
    LET i == FirstNewline(buffer)
    IN [line |-> SubSeq(buffer, 1, i - 1), buffer |-> SubSeq(buffer, i + 1, Len(buffer))]

\* s[:n]
Slice(s, n) == SubSeq(s, 1, Min(n, Len(s)))

(***************************************************************************)
(* The texts a peer sends in this model.                                   *)
(***************************************************************************)
HB_ALICE == <<"{", "\"", "t", "y", "p", "e", "\"", ":", "\"", "h", "e", "a", "r", "t", "b", "e", "a", "t", "\"", ",", "\"", "l", "o", "g", "i", "n", "\"", ":", "\"", "a", "l", "i", "c", "e", "\"", "}">>
HB_ANON == <<"{", "\"", "t", "y", "p", "e", "\"", ":", "\"", "h", "e", "a", "r", "t", "b", "e", "a", "t", "\"", "}">>
PING == <<"{", "\"", "t", "y", "p", "e", "\"", ":", "\"", "p", "i", "n", "g", "\"", "}">>
PING_HEAD == <<"{", "\"", "t", "y", "p", "e", "\"", ":", "\"", "p", "i", "n", "g", "\"">>
\* {"type":"ping" followed by 190 spaces and }: valid JSON of 205 characters
LONG_PING == PING_HEAD \o Rep(" ", 190) \o <<"}">>
NOTYPE == <<"{", "}">>
ARRAY == <<"[", "1", "]">>
BAD == <<"n", "o", "t", "-", "j", "s", "o", "n", "-", "a", "t", "-", "a", "l", "l">>
\* 120 characters that are not JSON
LONG_BAD == Rep("x", 120)
\* the two bytes of U+00E9
E_ACUTE == <<"xC3", "xA9">>

(***************************************************************************)
(* json.loads and dict.get                                                 *)
(***************************************************************************)
\* The JSON documents among the texts above, with the Python value each
\* parses to; a dict is a function from its keys.
JsonDocs ==
    { [text |-> HB_ALICE, value |-> [kind |-> "dict", d |-> [type |-> "heartbeat", login |-> "alice"]]],
      [text |-> HB_ANON, value |-> [kind |-> "dict", d |-> [type |-> "heartbeat"]]],
      [text |-> PING, value |-> [kind |-> "dict", d |-> [type |-> "ping"]]],
      [text |-> LONG_PING, value |-> [kind |-> "dict", d |-> [type |-> "ping"]]],
      [text |-> NOTYPE, value |-> [kind |-> "dict", d |-> <<>>]],
      [text |-> ARRAY, value |-> [kind |-> "list", d |-> <<>>]] }

\* json.loads(s): leading and trailing whitespace is skipped; a text that is
\* not one document raises JSONDecodeError.
json_loads(s) ==
    LET core == strip(s)
        hits == { doc \in JsonDocs : doc.text = core }
    IN IF hits # {}
       THEN [exc |-> "none", value |-> (CHOOSE doc \in hits : TRUE).value]
       ELSE [exc |-> "JSONDecodeError", value |-> [kind |-> "none", d |-> <<>>]]

\* v.get(key, default): only a dict has the method.
HasGet(v) == v.kind = "dict"

\* Mutant: .get(key) without the default.
dict_get_no_default(v, key, default) == IF key \in DOMAIN v.d THEN v.d[key] ELSE "None"

dict_get(v, key, default) == IF key \in DOMAIN v.d THEN v.d[key] ELSE default

(***************************************************************************)
(* read(): the body of "if line.strip():", lines 41-52                     *)
(***************************************************************************)
HeartbeatLog(addr, login) ==
    [level |-> "INFO", msg |-> "Heartbeat from", addr |-> addr, login |-> login]

MessageLog(addr, msg_type, line) ==
    [level |-> "INFO", msg |-> "Message from", addr |-> addr, type |-> msg_type,
     text |-> Slice(line, MsgLogLimit)]

InvalidJsonLog(addr, line) ==
    [level |-> "WARN", msg |-> "Invalid JSON from", addr |-> addr,
     text |-> Slice(line, WarnLogLimit)]

\* Mutant: an except clause that does not cover JSONDecodeError.
JsonClausesKeyError == << [classes |-> {"KeyError"}, do |-> "warn"] >>

\* The except clause of the try around json.loads (line 51).
JsonClauses == << [classes |-> {"JSONDecodeError"}, do |-> "warn"] >>

\* What the Reader does with one extracted line: the logs it prints, whether
\* json.loads was called, and the exception that leaves the while loop.
HandleLine(addr, line) ==
    IF ~StripTruthy(line)
    THEN [out |-> <<>>, parsed |-> FALSE, exc |-> "none"]
    ELSE LET r == json_loads(line)
         IN IF r.exc # "none"
            THEN IF FirstMatch(JsonClauses, r.exc) = "warn"
                 THEN [out |-> <<InvalidJsonLog(addr, line)>>, parsed |-> TRUE, exc |-> "none"]
                 ELSE [out |-> <<>>, parsed |-> TRUE, exc |-> r.exc]
            ELSE IF ~HasGet(r.value)
                 THEN IF FirstMatch(JsonClauses, "AttributeError") = "warn"
                      THEN [out |-> <<InvalidJsonLog(addr, line)>>, parsed |-> TRUE, exc |-> "none"]
                      ELSE [out |-> <<>>, parsed |-> TRUE, exc |-> "AttributeError"]
                 ELSE LET msg_type == dict_get(r.value, "type", "unknown")
                      IN IF msg_type = "heartbeat"
                         THEN [out |-> <<HeartbeatLog(addr, dict_get(r.value, "login", "unknown"))>>,
                               parsed |-> TRUE, exc |-> "none"]
                         ELSE [out |-> <<MessageLog(addr, msg_type, line)>>,
                               parsed |-> TRUE, exc |-> "none"]

(***************************************************************************)
(* read(): one pass of the "while True" loop, lines 29-68                  *)
(***************************************************************************)
\* The Reader's locals and what it has printed.  pc: "recv" (about to call
\* conn.recv), "finally" (left the loop, about to close), "done".  why and at
\* record what ended the loop; extracted records every line split off and
\* what was done with it; recvs records the outcome of every conn.recv call
\* ("data", "eof" or the exception raised).
ReaderStart ==
    [pc |-> "recv", buffer |-> <<>>, log |-> <<>>, extracted |-> <<>>, text |-> <<>>,
     recvs |-> <<>>, why |-> "none", at |-> "none", escaped |-> FALSE]

\* Mutant: the loop's try without the clause for socket.timeout.
ReadLoopClausesNoTimeout ==
    << [classes |-> {"ConnectionResetError"}, do |-> "reset"],
       [classes |-> {"BrokenPipeError"}, do |-> "pipe"] >>

\* The except clauses of the try inside the loop (lines 54-65).
ReadLoopClauses ==
    << [classes |-> {"timeout"}, do |-> "continue"],
       [classes |-> {"ConnectionResetError"}, do |-> "reset"],
       [classes |-> {"BrokenPipeError"}, do |-> "pipe"] >>

\* Mutant: read() without the try around the whole function.
ReadOuterClausesMissing == <<>>

\* The except clause of the try around the whole function (line 67).
ReadOuterClauses == << [classes |-> {"Exception"}, do |-> "error"] >>

ResetLog(addr) == [level |-> "INFO", msg |-> "Connection reset by", addr |-> addr]
BrokenPipeLog(addr) == [level |-> "INFO", msg |-> "Broken pipe with", addr |-> addr]
ReadErrorLog(addr, exc) == [level |-> "ERROR", msg |-> "read from", addr |-> addr, exc |-> exc]
ClosedLog(addr) == [level |-> "INFO", msg |-> "Connection closed with", addr |-> addr]

\* An exception exc that reaches the try around the whole function.
ReadOuter(R, addr, exc, at) ==
    IF FirstMatch(ReadOuterClauses, exc) = "error"
    THEN [R EXCEPT !.pc = "finally", !.log = Append(@, ReadErrorLog(addr, exc)),
                   !.why = exc, !.at = at]
    ELSE [R EXCEPT !.pc = "finally", !.why = exc, !.at = at, !.escaped = TRUE]

\* An exception exc raised inside the loop's try, at place `at`.
ReadRaise(R, addr, exc, at) ==
    LET inner == FirstMatch(ReadLoopClauses, exc)
    IN CASE inner = "continue" -> R
         [] inner = "reset" ->
              [R EXCEPT !.pc = "finally", !.log = Append(@, ResetLog(addr)),
                        !.why = exc, !.at = at]
         [] inner = "pipe" ->
              [R EXCEPT !.pc = "finally", !.log = Append(@, BrokenPipeLog(addr)),
                        !.why = exc, !.at = at]
         [] OTHER -> ReadOuter(R, addr, exc, at)

\* Mutant: "if '\n' in buffer" in place of "while '\n' in buffer".
ProcessBufferOnce(R, addr) ==
    IF ~HasNewline(R.buffer) THEN R
    ELSE LET sp == split_nl(R.buffer)
             h == HandleLine(addr, sp.line)
             R1 == [R EXCEPT !.buffer = sp.buffer,
                             !.log = @ \o h.out,
                             !.extracted = Append(@, [line |-> sp.line, parsed |-> h.parsed,
                                                      out |-> h.out, exc |-> h.exc])]
         IN IF h.exc # "none"
            THEN ReadRaise(R1, addr, h.exc, "dispatch")
            ELSE R1

\* while '\n' in buffer: ... (lines 39-52)
RECURSIVE ProcessBuffer(_, _)
ProcessBuffer(R, addr) ==
    IF ~HasNewline(R.buffer) THEN R
    ELSE LET sp == split_nl(R.buffer)
             h == HandleLine(addr, sp.line)
             R1 == [R EXCEPT !.buffer = sp.buffer,
                             !.log = @ \o h.out,
                             !.extracted = Append(@, [line |-> sp.line, parsed |-> h.parsed,
                                                      out |-> h.out, exc |-> h.exc])]
         IN IF h.exc # "none"
            THEN ReadRaise(R1, addr, h.exc, "dispatch")
            ELSE ProcessBuffer(R1, addr)

\* buffer += data, then the while loop (lines 36-52).  text records all the
\* decoded data the Reader has appended.
ReadText(R, addr, data) ==
    ProcessBuffer([R EXCEPT !.buffer = @ \o data, !.text = @ \o data], addr)

\* conn.recv(1024) returned `bytes` (lines 31-52).
ReadData(R, addr, bytes) ==
    LET data == decode(bytes)
        R0 == [R EXCEPT !.recvs = Append(@, IF bytes = <<>> THEN "eof" ELSE "data")]
    IN IF data = <<>>
       THEN [R0 EXCEPT !.pc = "finally", !.why = "eof",
                       !.at = IF bytes = <<>> THEN "recv" ELSE "decode"]
       ELSE ReadText(R0, addr, data)

\* conn.recv(1024) raised exc (lines 31, 54-68).
RecvRaise(R, addr, exc) ==
    ReadRaise([R EXCEPT !.recvs = Append(@, exc)], addr, exc, "recv")

\* Mutant: what is left in the buffer dispatched as a last line on the way
\* out.
ReadFinallyFlush(R, addr) ==
    LET h == HandleLine(addr, R.buffer)
    IN [R EXCEPT !.pc = "done",
                 !.log = (@ \o h.out) \o <<ClosedLog(addr)>>,
                 !.extracted = Append(@, [line |-> R.buffer, parsed |-> h.parsed,
                                          out |-> h.out, exc |-> h.exc])]

\* finally: conn.close() with every error swallowed, then the closure log
\* (lines 69-74).
ReadFinally(R, addr) ==
    [R EXCEPT !.pc = "done", !.log = Append(@, ClosedLog(addr))]

(***************************************************************************)
(* The Reader on its own: a byte stream B is drawn, and recv hands it to   *)
(* read() in chunks cut at places the run chooses.                         *)
(***************************************************************************)

PeerAddr == "peer"

\* The lines a stream is made of, as bytes, without their newline.
LineSet ==
    { <<>>, <<" ">>, HB_ALICE, HB_ANON, PING, LONG_PING, NOTYPE, ARRAY, BAD, LONG_BAD, E_ACUTE }

\* What may follow the last newline.
TailSet == { <<>>, NOTYPE, E_ACUTE }

RECURSIVE JoinLines(_)
JoinLines(ls) ==
    IF ls = <<>> THEN <<>> ELSE Head(ls) \o <<"\n">> \o JoinLines(Tail(ls))

Streams ==
    { JoinLines(ls) \o tail :
        ls \in UNION { [1..k -> LineSet] : k \in 0..MaxLines }, tail \in TailSet }

\* The sizes recv may return when rem bytes are on their way.
ChunkSizes(rem) == { n \in {1, 2, rem - 1, rem} : 1 <= n /\ n <= Min(rem, RecvSize) }

ReadInit ==
    /\ B \in Streams
    /\ pos = 0
    /\ nrecv = 0
    /\ rd = ReaderStart

\* recv returns the next n bytes of B.
RecvData ==
    /\ rd.pc = "recv"
    /\ nrecv < MaxRecvs
    /\ \E n \in ChunkSizes(Len(B) - pos) :
          /\ rd' = ReadData(rd, PeerAddr, SubSeq(B, pos + 1, pos + n))
          /\ pos' = pos + n
    /\ nrecv' = nrecv + 1
    /\ UNCHANGED B
    /\ UNCHANGED serverVars

\* The peer has shut down after sending all of B: recv returns b''.
RecvEof ==
    /\ rd.pc = "recv"
    /\ pos = Len(B)
    /\ rd' = ReadData(rd, PeerAddr, <<>>)
    /\ UNCHANGED <<B, pos, nrecv>>
    /\ UNCHANGED serverVars

ReadExit ==
    /\ rd.pc = "finally"
    /\ rd' = ReadFinally(rd, PeerAddr)
    /\ UNCHANGED <<B, pos, nrecv>>
    /\ UNCHANGED serverVars


(***************************************************************************)
(* conn.close() in the finally blocks (lines 69-73 and 96-100)             *)
(***************************************************************************)
\* Mutant: the finally block without the call of conn.close().
conn_close_skipped(h) == h

\* The handle after conn.close(): closed, whether or not the call raised.
conn_close(h) == "closed"

\* What conn.close() may raise: nothing on a handle already closed (Python's
\* socket.close is a no-op then), nothing or an OSError on an open one.
CloseRaises(h) == IF h = "open" THEN {"none", "OSError"} ELSE {"none"}

\* Mutant: conn.close() with no try around it.
FinallyClausesMissing == <<>>

\* try: conn.close()  except: pass
FinallyClauses == << [classes |-> {"BaseException"}, do |-> "pass"] >>

\* Whether an exception raised by conn.close() leaves the finally block.
CloseEscapes(exc) == exc # "none" /\ FirstMatch(FinallyClauses, exc) # "pass"

(***************************************************************************)
(* read(): the socket set-up before the loop, lines 10-28                  *)
(***************************************************************************)
\* The except clause around the TCP_KEEPIDLE/KEEPINTVL/KEEPCNT options.
KeepaliveClauses == << [classes |-> {"AttributeError", "OSError"}, do |-> "pass"] >>

\* settimeout and SO_KEEPALIVE raise OSError on a closed handle; the three
\* TCP keepalive options may raise `opt` where they are not supported.
ReadSetup(R, addr, h, opt) ==
    IF h # "open"
    THEN ReadOuter(R, addr, "OSError", "setup")
    ELSE IF opt # "none" /\ FirstMatch(KeepaliveClauses, opt) # "pass"
         THEN ReadOuter(R, addr, opt, "setup")
         ELSE [R EXCEPT !.pc = "recv", !.buffer = <<>>]

(***************************************************************************)
(* write(), lines 77-100                                                   *)
(***************************************************************************)
\* payload = { "cmd": "ACCOUNT" }
payload == [key |-> <<"c", "m", "d">>, value |-> <<"A", "C", "C", "O", "U", "N", "T">>]

Quoted(str) == <<"\"">> \o str \o <<"\"">>

\* json.dumps of a dict with one string entry: the default separators are
\* ", " and ": ".
json_dumps(obj) == <<"{">> \o Quoted(obj.key) \o <<":", " ">> \o Quoted(obj.value) \o <<"}">>

\* time.sleep(3)
SleepSeconds == 3

\* The Writer's position and what it has done.  pc: "idle" (not started),
\* "setup", "send" (about to call conn.send), "sleep" (about to call
\* time.sleep), "finally", "done".  trace records every send and sleep.
WriterIdle ==
    [pc |-> "idle", log |-> <<>>, trace |-> <<>>, why |-> "none", escaped |-> FALSE]

\* Mutant: a plain OSError taken for a passing condition and retried.
WriteLoopClausesRetry ==
    << [classes |-> {"ConnectionResetError", "BrokenPipeError"}, do |-> "end"],
       [classes |-> {"timeout", "OSError"}, do |-> "continue"] >>

\* The except clauses of the try inside the loop, in source order
\* (lines 87-93).
WriteLoopClauses ==
    << [classes |-> {"ConnectionResetError", "BrokenPipeError", "OSError"}, do |-> "end"],
       [classes |-> {"timeout"}, do |-> "continue"] >>

\* The except clause of the try around the whole function (line 94).
WriteOuterClauses == << [classes |-> {"Exception"}, do |-> "error"] >>

WriteEndLog(addr, exc) ==
    [level |-> "INFO", msg |-> "Write thread ending for", addr |-> addr, exc |-> exc]
WriteErrorLog(addr, exc) ==
    [level |-> "ERROR", msg |-> "write to", addr |-> addr, exc |-> exc]

\* An exception exc that reaches the try around the whole function.
WriteOuter(W, addr, exc) ==
    IF FirstMatch(WriteOuterClauses, exc) = "error"
    THEN [W EXCEPT !.pc = "finally", !.log = Append(@, WriteErrorLog(addr, exc)),
                   !.why = exc]
    ELSE [W EXCEPT !.pc = "finally", !.why = exc, !.escaped = TRUE]

\* Mutant: every exception in the loop swallowed and the send tried again.
WriteRaiseContinue(W, addr, exc) == [W EXCEPT !.pc = "send"]

\* An exception exc raised inside the loop's try.
WriteRaise(W, addr, exc) ==
    LET inner == FirstMatch(WriteLoopClauses, exc)
    IN CASE inner = "continue" -> [W EXCEPT !.pc = "send"]
         [] inner = "end" ->
              [W EXCEPT !.pc = "finally", !.log = Append(@, WriteEndLog(addr, exc)),
                        !.why = exc]
         [] OTHER -> WriteOuter(W, addr, exc)

\* conn.settimeout(30.0) before the loop: OSError on a closed handle, which
\* only the outer except can catch.
WriteSetup(W, addr, h) ==
    IF h # "open" THEN WriteOuter(W, addr, "OSError") ELSE [W EXCEPT !.pc = "send"]

\* Mutant: the loop sends again without sleeping.
AfterSendNoSleep == "send"

\* Where the Writer goes after a send that returned.
AfterSend == "sleep"

\* conn.send(json.dumps(payload).encode()) with outcome exc ("none": sent).
WriteSend(W, addr, exc) ==
    LET ev == [op |-> "send", data |-> json_dumps(payload), exc |-> exc]
        W1 == [W EXCEPT !.trace = Append(@, ev)]
    IN IF exc = "none"
       THEN [W1 EXCEPT !.pc = AfterSend]
       ELSE WriteRaise(W1, addr, exc)

\* time.sleep(3), then the next pass of the loop.
WriteSleep(W) ==
    [W EXCEPT !.pc = "send", !.trace = Append(@, [op |-> "sleep", secs |-> SleepSeconds])]

WriteFinally(W, exc) ==
    [W EXCEPT !.pc = "done", !.escaped = @ \/ CloseEscapes(exc)]

(***************************************************************************)
(* start_server(): the accept loop, lines 117-139                          *)
(***************************************************************************)
\* Mutant: an except clause for socket errors only.
AcceptClausesOSError == << [classes |-> {"OSError"}, do |-> "continue"] >>

\* The except clause of the try inside the accept loop (line 137).
AcceptClauses == << [classes |-> {"Exception"}, do |-> "continue"] >>

EstablishedLog(addr) == [level |-> "INFO", msg |-> "Connection established with", addr |-> addr]
AcceptErrorLog(exc) == [level |-> "ERROR", msg |-> "Error accepting connection", exc |-> exc]

\* Where the accept loop goes when exc is raised inside its try.
AcceptRaise(exc) ==
    IF FirstMatch(AcceptClauses, exc) = "continue" THEN "accept" ELSE "stopped"

(***************************************************************************)
(* The server: the accept loop and, per connection, a Reader and a Writer  *)
(* thread, all running concurrently.                                       *)
(***************************************************************************)
\* Data chunks received, over all connections.
MaxData == 2
\* conn.send calls per connection.
MaxSends == 2
\* Calls that fail, over the whole server: exceptions raised by accept, the
\* set-up, thread start, recv and send, and peers shutting down.
MaxFaults == 2

\* With two peers every budget is one lower, which keeps the state space of
\* two interleaved connections within reach.
Budget(max) == IF Len(peers) > 1 THEN max - 1 ELSE max

Conns == 1..Len(peers)

\* What one recv may return in the server model.
ServerChunks == { PING \o <<"\n">>, ARRAY \o <<"\n">>, BAD }

\* What recv, send and the accept-loop calls may raise.
RecvRaises == {"timeout", "ConnectionResetError", "BrokenPipeError", "OSError"}
SendRaises == {"timeout", "ConnectionResetError", "BrokenPipeError", "OSError"}
AcceptRaises == {"OSError"}
StartRaises == {"RuntimeError"}

\* Mutant: the thread looks its connection up when it runs, and finds the one
\* the accept loop accepted last.
ThreadArgLateBound(c, latest) == latest

\* threading.Thread(target=..., args=(conn, addr)) (lines 129-130): the
\* arguments are bound when the Thread object is made, so the threads of
\* connection c work on connection c, whatever the accept loop's conn
\* variable holds by the time they run.
ThreadArg(c, latest) == c

\* The connection, the handle and the address the threads of connection c
\* were given.
Arg(c) == ThreadArg(c, nconn)
ConnOf(c) == conn[Arg(c)]
AddrOf(c) == peers[Arg(c)]

ReaderIdle == [ReaderStart EXCEPT !.pc = "idle"]

\* The server after start_server has bound and listened (lines 104-115), with
\* the peers `ps` about to connect.
ServerInit(ps) ==
    /\ peers = ps
    /\ lpc = "accept"
    /\ nconn = 0
    /\ llog = <<>>
    /\ conn = [c \in Conns |-> "none"]
    /\ reader = [c \in Conns |-> ReaderIdle]
    /\ writer = [c \in Conns |-> WriterIdle]
    /\ ndata = 0
    /\ nfault = 0

\* An exception inside the accept loop's try: logged, and the loop goes on.
ListenerRaise(exc) ==
    /\ nfault < Budget(MaxFaults)
    /\ nfault' = nfault + 1
    /\ lpc' = AcceptRaise(exc)
    /\ llog' = IF AcceptRaise(exc) = "accept" THEN Append(llog, AcceptErrorLog(exc)) ELSE llog

\* conn, addr = server.accept() returns a connection (lines 119-120).
AcceptOk ==
    /\ lpc = "accept"
    /\ nconn < Len(peers)
    /\ nconn' = nconn + 1
    /\ conn' = [conn EXCEPT ![nconn + 1] = "open"]
    /\ llog' = Append(llog, EstablishedLog(peers[nconn + 1]))
    /\ lpc' = "options"
    /\ UNCHANGED <<peers, reader, writer, ndata, nfault>>
    /\ UNCHANGED readVars

\* server.accept() raises (line 119).
AcceptFail ==
    /\ lpc = "accept"
    /\ \E exc \in AcceptRaises : ListenerRaise(exc)
    /\ UNCHANGED <<peers, nconn, conn, reader, writer, ndata>>
    /\ UNCHANGED readVars

\* The three setsockopt calls and the two Thread objects (lines 123-133).
Options ==
    /\ lpc = "options"
    /\ \E exc \in {"none"} \cup AcceptRaises :
          IF exc = "none"
          THEN lpc' = "start_r" /\ llog' = llog /\ nfault' = nfault
          ELSE ListenerRaise(exc)
    /\ UNCHANGED <<peers, nconn, conn, reader, writer, ndata>>
    /\ UNCHANGED readVars

\* thread_r.start() (line 135).
StartReader ==
    /\ lpc = "start_r"
    /\ \E exc \in {"none"} \cup StartRaises :
          IF exc = "none"
          THEN /\ lpc' = "start_w"
               /\ llog' = llog
               /\ nfault' = nfault
               /\ reader' = [reader EXCEPT ![nconn].pc = "setup"]
          ELSE ListenerRaise(exc) /\ reader' = reader
    /\ UNCHANGED <<peers, nconn, conn, writer, ndata>>
    /\ UNCHANGED readVars

\* thread_w.start() (line 136).
StartWriter ==
    /\ lpc = "start_w"
    /\ \E exc \in {"none"} \cup StartRaises :
          IF exc = "none"
          THEN /\ lpc' = "accept"
               /\ llog' = llog
               /\ nfault' = nfault
               /\ writer' = [writer EXCEPT ![nconn].pc = "setup"]
          ELSE ListenerRaise(exc) /\ writer' = writer
    /\ UNCHANGED <<peers, nconn, conn, reader, ndata>>
    /\ UNCHANGED readVars

ReaderSetup ==
    \E c \in Conns :
        /\ reader[c].pc = "setup"
        /\ \E opt \in {"none", "AttributeError", "OSError"} :
              reader' = [reader EXCEPT ![c] = ReadSetup(@, AddrOf(c), ConnOf(c), opt)]
        /\ UNCHANGED <<peers, lpc, nconn, llog, conn, writer, ndata, nfault>>
        /\ UNCHANGED readVars

\* conn.recv(1024) returns data.
ReaderRecv ==
    \E c \in Conns :
        /\ reader[c].pc = "recv"
        /\ ConnOf(c) = "open"
        /\ ndata < Budget(MaxData)
        /\ ndata' = ndata + 1
        /\ \E bytes \in ServerChunks :
              reader' = [reader EXCEPT ![c] = ReadData(@, AddrOf(c), bytes)]
        /\ UNCHANGED <<peers, lpc, nconn, llog, conn, writer, nfault>>
        /\ UNCHANGED readVars

\* conn.recv(1024) returns b'': the peer has shut down.
ReaderRecvEof ==
    \E c \in Conns :
        /\ reader[c].pc = "recv"
        /\ ConnOf(c) = "open"
        /\ nfault < Budget(MaxFaults)
        /\ nfault' = nfault + 1
        /\ reader' = [reader EXCEPT ![c] = ReadData(@, AddrOf(c), <<>>)]
        /\ UNCHANGED <<peers, lpc, nconn, llog, conn, writer, ndata>>
        /\ UNCHANGED readVars

\* conn.recv(1024) raises a timeout or a connection error.
ReaderRecvRaise ==
    \E c \in Conns :
        /\ reader[c].pc = "recv"
        /\ ConnOf(c) = "open"
        /\ nfault < Budget(MaxFaults)
        /\ nfault' = nfault + 1
        /\ \E exc \in RecvRaises :
              reader' = [reader EXCEPT ![c] = RecvRaise(@, AddrOf(c), exc)]
        /\ UNCHANGED <<peers, lpc, nconn, llog, conn, writer, ndata>>
        /\ UNCHANGED readVars

\* conn.recv(1024) on a handle the Writer has closed raises OSError.
ReaderRecvClosed ==
    \E c \in Conns :
        /\ reader[c].pc = "recv"
        /\ ConnOf(c) = "closed"
        /\ reader' = [reader EXCEPT ![c] = RecvRaise(@, AddrOf(c), "OSError")]
        /\ UNCHANGED <<peers, lpc, nconn, llog, conn, writer, ndata, nfault>>
        /\ UNCHANGED readVars

ReaderFinally ==
    \E c \in Conns :
        /\ reader[c].pc = "finally"
        /\ \E exc \in CloseRaises(ConnOf(c)) :
              reader' = [reader EXCEPT ![c] =
                            [ReadFinally(@, AddrOf(c)) EXCEPT !.escaped = @ \/ CloseEscapes(exc)]]
        /\ conn' = [conn EXCEPT ![Arg(c)] = conn_close(@)]
        /\ UNCHANGED <<peers, lpc, nconn, llog, writer, ndata, nfault>>
        /\ UNCHANGED readVars

WriterSetup ==
    \E c \in Conns :
        /\ writer[c].pc = "setup"
        /\ writer' = [writer EXCEPT ![c] = WriteSetup(@, AddrOf(c), ConnOf(c))]
        /\ UNCHANGED <<peers, lpc, nconn, llog, conn, reader, ndata, nfault>>
        /\ UNCHANGED readVars

IsSend(e) == e.op = "send"

Sends(W) == Len(SelectSeq(W.trace, IsSend))

\* conn.send returns.
WriterSend ==
    \E c \in Conns :
        /\ writer[c].pc = "send"
        /\ ConnOf(c) = "open"
        /\ Sends(writer[c]) < Budget(MaxSends)
        /\ writer' = [writer EXCEPT ![c] = WriteSend(@, AddrOf(c), "none")]
        /\ UNCHANGED <<peers, lpc, nconn, llog, conn, reader, ndata, nfault>>
        /\ UNCHANGED readVars

\* conn.send raises a timeout or a connection error.
WriterSendRaise ==
    \E c \in Conns :
        /\ writer[c].pc = "send"
        /\ ConnOf(c) = "open"
        /\ Sends(writer[c]) < Budget(MaxSends)
        /\ nfault < Budget(MaxFaults)
        /\ nfault' = nfault + 1
        /\ \E exc \in SendRaises :
              writer' = [writer EXCEPT ![c] = WriteSend(@, AddrOf(c), exc)]
        /\ UNCHANGED <<peers, lpc, nconn, llog, conn, reader, ndata>>
        /\ UNCHANGED readVars

\* conn.send on a handle the Reader has closed raises OSError.
WriterSendClosed ==
    \E c \in Conns :
        /\ writer[c].pc = "send"
        /\ ConnOf(c) = "closed"
        /\ Sends(writer[c]) <= Budget(MaxSends)
        /\ writer' = [writer EXCEPT ![c] = WriteSend(@, AddrOf(c), "OSError")]
        /\ UNCHANGED <<peers, lpc, nconn, llog, conn, reader, ndata, nfault>>
        /\ UNCHANGED readVars

WriterSleep ==
    \E c \in Conns :
        /\ writer[c].pc = "sleep"
        /\ writer' = [writer EXCEPT ![c] = WriteSleep(@)]
        /\ UNCHANGED <<peers, lpc, nconn, llog, conn, reader, ndata, nfault>>
        /\ UNCHANGED readVars

WriterFinally ==
    \E c \in Conns :
        /\ writer[c].pc = "finally"
        /\ \E exc \in CloseRaises(ConnOf(c)) :
              writer' = [writer EXCEPT ![c] = WriteFinally(@, exc)]
        /\ conn' = [conn EXCEPT ![Arg(c)] = conn_close(@)]
        /\ UNCHANGED <<peers, lpc, nconn, llog, reader, ndata, nfault>>
        /\ UNCHANGED readVars

(***************************************************************************)
(* Specifications                                                          *)
(***************************************************************************)
\* The server, with no stream drawn for the Reader on its own.
Init ==
    /\ ServerInit(<<"peerA">>)
    /\ B = <<>> /\ pos = 0 /\ nrecv = 0
    /\ rd = [ReaderStart EXCEPT !.pc = "idle"]

Next ==
    \/ AcceptOk
    \/ AcceptFail
    \/ Options
    \/ StartReader
    \/ StartWriter
    \/ ReaderSetup
    \/ ReaderRecv
    \/ ReaderRecvEof
    \/ ReaderRecvRaise
    \/ ReaderRecvClosed
    \/ ReaderFinally
    \/ WriterSetup
    \/ WriterSend
    \/ WriterSendRaise
    \/ WriterSendClosed
    \/ WriterSleep
    \/ WriterFinally

Spec == Init /\ [][Next]_vars

\* The Reader on its own, with the server not started.
InitRead == ReadInit /\ ServerInit(<<>>)

NextRead == RecvData \/ RecvEof \/ ReadExit

SpecRead == InitRead /\ [][NextRead]_vars

\* The server with two peers connecting.
InitTwo ==
    /\ ServerInit(<<"peerA", "peerB">>)
    /\ B = <<>> /\ pos = 0 /\ nrecv = 0
    /\ rd = [ReaderStart EXCEPT !.pc = "idle"]

SpecTwo == InitTwo /\ [][Next]_vars

\* The server with one peer and fair scheduling: a started thread that can
\* take its next step (the set-up, a recv or a send on a closed handle, the
\* end of a sleep, the finally block) eventually takes it, and so does the
\* accept loop when it is about to start a thread.
Fairness ==
    /\ WF_vars(StartReader)
    /\ WF_vars(StartWriter)
    /\ WF_vars(ReaderSetup)
    /\ WF_vars(ReaderRecvClosed)
    /\ WF_vars(ReaderFinally)
    /\ WF_vars(WriterSetup)
    /\ WF_vars(WriterSendClosed)
    /\ WF_vars(WriterSleep)
    /\ WF_vars(WriterFinally)

SpecFair == Init /\ [][Next]_vars /\ Fairness

(***************************************************************************)
(* Properties of the Reader on its own (SpecRead).                         *)
(***************************************************************************)
Lines(R) == [i \in 1..Len(R.extracted) |-> R.extracted[i].line]

RECURSIVE ConcatOut(_)
ConcatOut(ex) == IF ex = <<>> THEN <<>> ELSE Head(ex).out \o ConcatOut(Tail(ex))

IsLineLog(e) == e.msg \in {"Heartbeat from", "Message from", "Invalid JSON from"}

\* The per-line logs printed are exactly those recorded line by line.
LogIsOutputs == SelectSeq(rd.log, IsLineLog) = ConcatOut(rd.extracted)

\* Every line split off has left the buffer: the lines, each with its
\* newline, followed by the buffer, are the text appended so far.
LinesConsumed == JoinLines(Lines(rd)) \o rd.buffer = rd.text

Blank(line) == \A i \in 1..Len(line) : line[i] \in {" ", "\t", "\r"}

\* The value of the JSON document a line holds; kind "invalid" when the line
\* is not JSON.
JsonOf(line) ==
    LET core == strip(line)
        hits == { doc \in JsonDocs : doc.text = core }
    IN IF hits = {} THEN [kind |-> "invalid", d |-> <<>>] ELSE (CHOOSE doc \in hits : TRUE).value

TypeOf(v) == IF "type" \in DOMAIN v.d THEN v.d["type"] ELSE "unknown"

LoginOf(v) == IF "login" \in DOMAIN v.d THEN v.d["login"] ELSE "unknown"

FirstChars(line, n) == [i \in 1..(IF Len(line) < n THEN Len(line) ELSE n) |-> line[i]]

\* The Reader left its loop while handling line k.
StoppedAt(k) == k = Len(rd.extracted) /\ rd.at = "dispatch"

RemoveAt(seq, k) == SubSeq(seq, 1, k - 1) \o SubSeq(seq, k + 1, Len(seq))

\* The text received so far with line k and its newline taken out.
TextWithout(k) == JoinLines(RemoveAt(Lines(rd), k)) \o rd.buffer

\* C2: however the received bytes are cut into recv chunks, the Reader, while
\* it stays in its loop, has extracted the same lines and holds the same
\* remainder as when the same bytes arrive in one chunk.
C2_ChunkIndependent ==
    LET one == ReadData(ReaderStart, PeerAddr, SubSeq(B, 1, pos))
    IN (pos > 0 /\ rd.pc = "recv" /\ one.pc = "recv")
         => /\ Lines(rd) = Lines(one)
            /\ rd.buffer = one.buffer

\* C4: a non-blank line that is not JSON gives exactly one WARN log with the
\* first 100 characters of the line, the Reader stays in its loop, and the
\* other lines are extracted and dispatched as if that line had not been sent.
C4_InvalidJsonWarned ==
    /\ LogIsOutputs
    /\ \A k \in 1..Len(rd.extracted) :
         LET e == rd.extracted[k]
         IN (~Blank(e.line) /\ JsonOf(e.line).kind = "invalid") =>
              /\ e.out = << [level |-> "WARN", msg |-> "Invalid JSON from", addr |-> PeerAddr,
                            text |-> FirstChars(e.line, 100)] >>
              /\ e.exc = "none"
              /\ ~StoppedAt(k)
              /\ LET without == ReadText(ReaderStart, PeerAddr, TextWithout(k))
                 IN /\ without.extracted = RemoveAt(rd.extracted, k)
                    /\ without.buffer = rd.buffer

C4_Witness ==
    \E k \in 1..Len(rd.extracted) :
        /\ ~Blank(rd.extracted[k].line) /\ JsonOf(rd.extracted[k].line).kind = "invalid"
        /\ Len(rd.extracted[k].line) > 100
        /\ k < Len(rd.extracted)
        /\ rd.extracted[k + 1].out # <<>>

C8_MessageLogged ==
    /\ LogIsOutputs
    /\ \A k \in 1..Len(rd.extracted) :
         LET e == rd.extracted[k]
             v == JsonOf(e.line)
         IN (v.kind = "dict" /\ TypeOf(v) # "heartbeat") =>
              e.out = << [level |-> "INFO", msg |-> "Message from", addr |-> PeerAddr,
                          type |-> TypeOf(v), text |-> FirstChars(e.line, 200)] >>

C8_Witness ==
    /\ Len(rd.extracted) = 2
    /\ rd.extracted[1].line = LONG_PING
    /\ rd.extracted[2].line = NOTYPE
    /\ Len(rd.log) = 2

\* C9: an empty or whitespace-only line is not given to json.loads and gives
\* no log; it is taken out of the buffer and the Reader goes on.
C9_BlankLineSkipped ==
    /\ LogIsOutputs
    /\ LinesConsumed
    /\ \A k \in 1..Len(rd.extracted) :
         LET e == rd.extracted[k]
         IN Blank(e.line) =>
              /\ ~e.parsed
              /\ e.out = <<>>
              /\ ~StoppedAt(k)

C9_Witness ==
    /\ Len(rd.extracted) = 2
    /\ rd.extracted[1].line = <<" ">>
    /\ rd.extracted[2].line = PING
    /\ Len(rd.log) = 1

(***************************************************************************)
(* Properties of the server (Spec).                                        *)
(***************************************************************************)
Last(seq) == seq[Len(seq)]

IsError(e) == e.level = "ERROR"

NotSpace(ch) == ch # " "

\* {"cmd":"ACCOUNT"}
ACCOUNT_CMD ==
    <<"{", "\"", "c", "m", "d", "\"", ":", "\"", "A", "C", "C", "O", "U", "N", "T", "\"", "}">>

\* C1: when conn.send raises a timeout the Writer stays in its loop, does not
\* go on to close the connection, and is about to send again.
C1_SendTimeoutContinues ==
    \A c \in Conns :
        LET t == writer[c].trace
        IN (t # <<>> /\ Last(t).op = "send" /\ Last(t).exc = "timeout")
             => writer[c].pc = "send"

\* C3: the Reader leaves its loop only on a connection-level event: a recv
\* that returned no bytes or raised, or a socket call that failed during
\* set-up; never because of what a received line holds.
C3_ReaderEndsOnConnectionEvent ==
    \A c \in Conns :
        reader[c].pc \in {"finally", "done"} =>
            \/ reader[c].at = "setup"
            \/ reader[c].at = "recv"

\* C5: no exception leaves read() or write(), whichever thread closes the
\* handle first and whether or not close raises; once both threads are done
\* the handle is closed.
C5_CloseSafe ==
    \A c \in Conns :
        /\ ~reader[c].escaped
        /\ ~writer[c].escaped
        /\ reader[c].pc = "done" => conn[c] = "closed"
        /\ writer[c].pc = "done" => conn[c] = "closed"

\* The peer shut down, the Reader closed first, and the Writer then failed on
\* the closed handle and closed it again.
C5_Witness ==
    \E c \in Conns :
        /\ reader[c].pc = "done" /\ reader[c].why = "eof"
        /\ writer[c].pc = "done" /\ writer[c].why = "OSError"
        /\ Len(writer[c].trace) = 3
        /\ conn[c] = "closed"

\* C6: the Writer's sends and sleeps alternate, starting with a send: every
\* send that is followed by anything is followed by one 3-second sleep, every
\* sleep follows a send that returned, and every send carries the JSON object
\* {"cmd":"ACCOUNT"}.
C6_OneSendPerCycle ==
    \A c \in Conns :
        LET t == writer[c].trace
        IN /\ t # <<>> => t[1].op = "send"
           /\ \A i \in 1..Len(t) :
                /\ t[i].op = "send" =>
                     /\ SelectSeq(t[i].data, NotSpace) = ACCOUNT_CMD
                     /\ i < Len(t) => (t[i + 1].op = "sleep" /\ t[i + 1].secs = 3)
                /\ t[i].op = "sleep" =>
                     /\ t[i - 1].op = "send" /\ t[i - 1].exc = "none"
                     /\ i < Len(t) => t[i + 1].op = "send"
           /\ writer[c].pc = "sleep" => (t # <<>> /\ Last(t).op = "send")
           /\ (writer[c].pc = "send" /\ t # <<>>) => Last(t).op = "sleep"

C6_Witness ==
    \E c \in Conns :
        /\ Len(writer[c].trace) = 4
        /\ writer[c].trace[3].op = "send" /\ writer[c].trace[3].exc = "none"
        /\ writer[c].trace[4].op = "sleep"
        /\ conn[c] = "open"

\* A step in which a call of the accept loop raised: a failure that is not a
\* Reader's or a Writer's.
ListenerFault ==
    /\ nfault' = nfault + 1
    /\ reader' = reader /\ writer' = writer
    /\ lpc' # lpc \/ llog' # llog

\* C10: the accept loop never stops: every exception raised inside it is
\* logged as an error, and the loop is then back at accept.
C10_AcceptLoopSurvives ==
    /\ [](lpc # "stopped")
    /\ [][ListenerFault =>
            /\ lpc' = "accept"
            /\ llog' = Append(llog, [level |-> "ERROR", msg |-> "Error accepting connection",
                                     exc |-> Last(llog').exc])]_vars

\* Two failures, the second after a connection was accepted, and the loop is
\* at accept again.
C10_Witness ==
    /\ Len(llog) = 3
    /\ IsError(llog[1])
    /\ llog[2].msg = "Connection established with"
    /\ IsError(llog[3])
    /\ lpc = "accept"

(***************************************************************************)
(* Properties of the server with two connections (SpecTwo).                *)
(***************************************************************************)
\* A step in which a thread of connection c leaves its loop after a failure,
\* or closes the handle on its way out.
FailureStep(c) ==
    \/ /\ reader'[c] # reader[c]
       /\ reader'[c].pc \in {"finally", "done"}
    \/ /\ writer'[c] # writer[c]
       /\ writer'[c].pc \in {"finally", "done"}

\* C11: a failure in a thread of one connection leaves the handle, the
\* Reader (its buffer included) and the Writer of every other connection as
\* they were, and leaves the accept loop where it was, running.
C11_FailureContained ==
    /\ [](lpc # "stopped")
    /\ [][\A c \in Conns :
            FailureStep(c) =>
                /\ \A d \in Conns \ {c} :
                      /\ conn'[d] = conn[d]
                      /\ reader'[d] = reader[d]
                      /\ writer'[d] = writer[d]
                /\ lpc' = lpc
                /\ llog' = llog]_vars

\* Connection 1 has failed and is closed while connection 2 is open, its
\* Reader holding a partial line and its Writer in its loop.
C11_Witness ==
    /\ Len(peers) = 2
    /\ conn[1] = "closed" /\ reader[1].pc = "done" /\ writer[1].pc = "done"
    /\ conn[2] = "open"
    /\ reader[2].pc = "recv" /\ reader[2].buffer = BAD
    /\ writer[2].pc \in {"send", "sleep"}

(***************************************************************************)
(* Further properties of the server (Spec).                                *)
(***************************************************************************)
\* A step in which a conn.recv of connection c's Reader raised a timeout.
RecvTimedOut(c) ==
    /\ Len(reader'[c].recvs) = Len(reader[c].recvs) + 1
    /\ Last(reader'[c].recvs) = "timeout"

\* C12: a recv that times out leaves the Reader in its loop, about to call
\* recv again, with the same buffer, the same log and everything else it
\* holds, and leaves the handle as it was.
C12_RecvTimeoutChangesNothing ==
    [][\A c \in Conns :
          RecvTimedOut(c) =>
              /\ reader'[c] = [reader[c] EXCEPT !.recvs = reader'[c].recvs]
              /\ reader'[c].pc = "recv"
              /\ conn' = conn]_vars

\* A partial line was received, a recv timed out, and the rest of the line
\* arrived afterwards: the line dispatched is the two parts joined.
C12_Witness ==
    \E c \in Conns :
        /\ reader[c].recvs = <<"data", "timeout", "data">>
        /\ Len(reader[c].extracted) = 1
        /\ reader[c].extracted[1].line = BAD \o PING
        /\ conn[c] = "open"

IsClosedLog(e) == e.msg = "Connection closed with"

\* C13: once a Reader or a Writer has exited, whatever made it exit, the
\* handle it was given is closed; the Reader has logged the closure exactly
\* once, as the last thing it printed.
C13_ExitClosesHandle ==
    \A c \in Conns :
        /\ writer[c].pc = "done" => conn[c] = "closed"
        /\ reader[c].pc = "done" =>
              /\ conn[c] = "closed"
              /\ Len(SelectSeq(reader[c].log, IsClosedLog)) = 1
              /\ Last(reader[c].log) = ClosedLog(peers[c])
        /\ reader[c].pc # "done" => SelectSeq(reader[c].log, IsClosedLog) = <<>>

\* The Writer failed and closed the handle before the Reader had configured
\* it; the Reader's settimeout then raised before the loop, and it exited
\* through the same finally block.
C13_Witness ==
    \E c \in Conns :
        /\ reader[c].pc = "done" /\ reader[c].at = "setup" /\ reader[c].why = "OSError"
        /\ writer[c].pc = "done" /\ writer[c].why \in {"ConnectionResetError", "BrokenPipeError"}
        /\ reader[c].log = <<ReadErrorLog(peers[c], "OSError"), ClosedLog(peers[c])>>

\* C14: every connection accept has returned has its Reader and its Writer
\* started once the accept loop is back at accept (or has gone on to a later
\* connection), whether or not those threads have finished.
C14_BothWorkersStarted ==
    \A c \in 1..nconn :
        (c < nconn \/ lpc = "accept") =>
            /\ reader[c].pc # "idle"
            /\ writer[c].pc # "idle"

(***************************************************************************)
(* Properties of the server under fair scheduling (SpecFair).              *)
(***************************************************************************)
\* The thread T of connection c has exited, or was never started and never
\* will be (thread_r.start or thread_w.start raised, or an earlier call of
\* the same pass did).
Exited(T, c, startAt) ==
    \/ T[c].pc = "done"
    \/ /\ T[c].pc = "idle"
       /\ \/ nconn # c
          \/ lpc \notin startAt

\* C15: once the handle of a connection has been closed by one of its
\* threads, both threads of the connection eventually have exited.
C15_OtherWorkerTerminates ==
    (conn[1] = "closed")
        ~> (/\ Exited(reader, 1, {"options", "start_r"})
            /\ Exited(writer, 1, {"options", "start_r", "start_w"}))

\* The Reader saw the peer shut down and closed the handle while the Writer
\* was in its loop; the Writer's next send failed on the closed handle.
C15_Witness ==
    /\ reader[1].pc = "done" /\ reader[1].why = "eof"
    /\ writer[1].pc = "done" /\ writer[1].why = "OSError"
    /\ Len(writer[1].trace) >= 3
    /\ Last(writer[1].trace).exc = "OSError"

(***************************************************************************)
(* Further properties of the Reader on its own (SpecRead).                 *)
(***************************************************************************)
NewlinesIn(text) == { i \in 1..Len(text) : text[i] = "\n" }

\* The place of the k-th newline of text.
NewlineNo(text, k) ==
    CHOOSE i \in NewlinesIn(text) : Cardinality({ j \in NewlinesIn(text) : j <= i }) = k

\* The newline-terminated lines of text, in order, without their newline.
CompleteLines(text) ==
    [k \in 1..Cardinality(NewlinesIn(text)) |->
        SubSeq(text, (IF k = 1 THEN 0 ELSE NewlineNo(text, k - 1)) + 1, NewlineNo(text, k) - 1)]

NonBlank(line) == ~Blank(line)

\* The log entry e is the one a line gives.
LogIsFor(e, line) ==
    LET v == JsonOf(line)
    IN CASE e.msg = "Invalid JSON from" ->
              v.kind = "invalid" /\ e.text = FirstChars(line, 100)
         [] e.msg = "Message from" ->
              v.kind = "dict" /\ e.type = TypeOf(v) /\ e.text = FirstChars(line, 200)
         [] e.msg = "Heartbeat from" ->
              v.kind = "dict" /\ TypeOf(v) = "heartbeat" /\ e.login = LoginOf(v)
         [] OTHER -> FALSE

\* C16: the log entries the Reader has printed for lines are, one per
\* non-blank line and in the same order, those of the newline-terminated
\* lines of the text received.
C16_LogsInReceiptOrder ==
    LET nb == SelectSeq(CompleteLines(rd.text), NonBlank)
        logs == SelectSeq(rd.log, IsLineLog)
    IN /\ Len(logs) = Len(nb)
       /\ \A k \in 1..Len(nb) : LogIsFor(logs[k], nb[k])

\* C17: whenever the Reader is about to call recv its buffer holds no
\* newline: the lines split off are all the newline-terminated lines of the
\* text received, and the buffer is what follows the last newline.
C17_NoNewlineAtRecv ==
    rd.pc = "recv" =>
        /\ NewlinesIn(rd.buffer) = {}
        /\ Lines(rd) = CompleteLines(rd.text)
        /\ JoinLines(Lines(rd)) \o rd.buffer = rd.text

\* Two lines arrived in one chunk with the start of a third, and the Reader
\* is back at recv holding that start.
C17_Witness ==
    /\ rd.pc = "recv"
    /\ nrecv = 1
    /\ Len(rd.extracted) = 2
    /\ rd.buffer # <<>>

(***************************************************************************)
(* Properties of how the threads end (Spec).                               *)
(***************************************************************************)
\* The logs the Reader prints when it leaves its loop on an exception.
IsExitLog(e) == e.msg \in {"Connection reset by", "Broken pipe with", "read from"}

ReaderLeft(c) == reader[c].pc \in {"finally", "done"}

\* C18: a Reader that has left its loop has printed what its cause calls
\* for: nothing on a zero-byte read, one INFO log on a reset or a broken
\* pipe, one ERROR log on any other exception, which does not leave read();
\* a Reader still in its loop has printed none of these.  Once it has left
\* the loop it stays out and calls recv no more.
C18_ReaderExitClassified ==
    /\ [](\A c \in Conns :
            LET exitlogs == SelectSeq(reader[c].log, IsExitLog)
                why == reader[c].why
            IN /\ ~ReaderLeft(c) => exitlogs = <<>>
               /\ ReaderLeft(c) =>
                     /\ ~reader[c].escaped
                     /\ why = "eof" => exitlogs = <<>>
                     /\ why = "ConnectionResetError" =>
                           exitlogs = << [level |-> "INFO", msg |-> "Connection reset by",
                                          addr |-> peers[c]] >>
                     /\ why = "BrokenPipeError" =>
                           exitlogs = << [level |-> "INFO", msg |-> "Broken pipe with",
                                          addr |-> peers[c]] >>
                     /\ why \notin {"eof", "ConnectionResetError", "BrokenPipeError"} =>
                           exitlogs = << [level |-> "ERROR", msg |-> "read from",
                                          addr |-> peers[c], exc |-> why] >>)
    /\ [][\A c \in Conns :
            ReaderLeft(c) =>
                /\ reader'[c].pc \in {"finally", "done"}
                /\ reader'[c].recvs = reader[c].recvs
                /\ SelectSeq(reader'[c].log, IsExitLog) = SelectSeq(reader[c].log, IsExitLog)]_vars

\* The peer reset the connection after sending a line; the Reader has
\* logged the reset, closed the handle and exited.
C18_Witness ==
    \E c \in Conns :
        /\ reader[c].pc = "done"
        /\ reader[c].recvs = <<"data", "ConnectionResetError">>
        /\ Len(reader[c].extracted) = 1
        /\ Len(reader[c].log) = 3

SendFailures == {"ConnectionResetError", "BrokenPipeError", "OSError"}

\* C19: a send that raised a reset, a broken pipe or another OSError is the
\* last thing the Writer did in its loop: no send and no sleep follows it,
\* the Writer has left the loop and has printed one INFO log, naming the
\* error, and nothing else.
C19_SendFailureTerminal ==
    \A c \in Conns :
        LET t == writer[c].trace
        IN \A i \in 1..Len(t) :
              (t[i].op = "send" /\ t[i].exc \in SendFailures) =>
                  /\ i = Len(t)
                  /\ writer[c].pc \in {"finally", "done"}
                  /\ ~writer[c].escaped
                  /\ writer[c].log = << [level |-> "INFO", msg |-> "Write thread ending for",
                                         addr |-> peers[c], exc |-> t[i].exc] >>

\* One cycle went through, the second send met a broken pipe, and the Writer
\* has exited.
C19_Witness ==
    \E c \in Conns :
        /\ writer[c].pc = "done"
        /\ Len(writer[c].trace) = 3
        /\ writer[c].trace[1].exc = "none"
        /\ writer[c].trace[3].exc = "BrokenPipeError"
        /\ Len(writer[c].log) = 1

(***************************************************************************)
(* What the Reader leaves undone (SpecRead).                               *)
(***************************************************************************)
\* C20: every line the Reader has dispatched is a newline-terminated line of
\* the text received, taken in order, and the per-line logs are those of the
\* dispatched lines only: what follows the last newline is neither parsed
\* nor logged, also when the Reader exits with it in the buffer.
C20_RemainderNeverDispatched ==
    LET cl == CompleteLines(rd.text)
    IN /\ Len(rd.extracted) <= Len(cl)
       /\ \A k \in 1..Len(rd.extracted) : rd.extracted[k].line = cl[k]
       /\ SelectSeq(rd.log, IsLineLog) = ConcatOut(rd.extracted)
       /\ Len(SelectSeq(rd.log, IsLineLog)) <= Len(SelectSeq(cl, NonBlank))
       /\ rd.pc = "done" => Last(rd.log).msg = "Connection closed with"

\* The peer sent one line and then a JSON object without a newline, and shut
\* down: the Reader has exited with one per-line log and the closure log.
C20_Witness ==
    /\ rd.pc = "done" /\ rd.why = "eof"
    /\ rd.text = PING \o <<"\n">> \o NOTYPE
    /\ Len(rd.extracted) = 1
    /\ Len(rd.log) = 2

====
